---- MODULE Spec2Model ----
(***************************************************************************)
(* The notebook "Part 3 - Training Neural Networks (Exercises)" as a state *)
(* machine: one run of its code cells in cell order.  The program counter  *)
(* pc names the next statement; the state holds the Python variables the   *)
(* cells bind and the tensors (weights, gradients) they refer to.          *)
(*                                                                         *)
(* Numbers are exact rationals.  The network and the data set are scaled   *)
(* down: a model is one vector of NumParams weights, its forward pass is   *)
(* ReLU(w . x) and the criterion is the mean over the batch of             *)
(* -label * output, a piecewise linear stand-in for the stack of Linear /  *)
(* ReLU / LogSoftmax layers with NLLLoss.                                  *)
(***************************************************************************)
EXTENDS Integers, Sequences, FiniteSets, TLC

\* ------------------------------------------------------------- bounds
\* Number of examples of the (scaled down) training set.
NumExamples == 3
\* Scaled down batch_size of the DataLoader.
BatchSize == 2
\* Number of weights of a (scaled down) model.
NumParams == 2

\* ------------------------------------------------- program constants
\* epochs = 5
epochs == 5
\* torch.randn(2,2, ...): shape of the toy tensor x
ToyRows == 2
ToyCols == 2

\* An optional value: None, or Some(v) holding v.
None == <<>>
Some(v) == <<v>>
Get(o) == o[1]

\* ---------------------------------------------------------- rationals
\* The arithmetic is written as functions: their arguments are evaluated
\* once, before the application.
GCD[a \in Nat, b \in Nat] == IF b = 0 THEN a ELSE GCD[b, a % b]

Abs(a) == IF a < 0 THEN -a ELSE a

\* The rational n/d in lowest terms with a positive denominator.
Rat[n \in Int, d \in Int] ==
    LET s == IF d < 0 THEN -1 ELSE 1
        g == GCD[Abs(n), Abs(d)]
    IN  [n |-> (s * n) \div g, d |-> (s * d) \div g]

Q == [n : Int, d : Nat]
RInt(k) == [n |-> k, d |-> 1]
RAdd[a \in Q, b \in Q] == Rat[a.n * b.d + b.n * a.d, a.d * b.d]
RSub[a \in Q, b \in Q] == Rat[a.n * b.d - b.n * a.d, a.d * b.d]
RMul[a \in Q, b \in Q] == Rat[a.n * b.n, a.d * b.d]
RDivInt[a \in Q, k \in Nat] == Rat[a.n, a.d * k]
RPos(a) == a.n > 0

\* The sum of the elements of the sequence s.
RSum(s) ==
    LET sumTo[k \in 0..Len(s)] == IF k = 0 THEN RInt(0) ELSE RAdd[sumTo[k - 1], s[k]]
    IN  sumTo[Len(s)]

\* ------------------------------------------------------- the data set
Examples == 1..NumExamples
Params == 1..NumParams

\* Pixel p of training example i, and the label of example i.
Feature(i, p) == ((i * (p + 1) + p) % 3) - 1
Label(i) == IF i % 2 = 1 THEN 1 ELSE -1

\* len(trainloader): the number of batches of one pass over the data set.
NumBatches == (NumExamples + BatchSize - 1) \div BatchSize

\* A sampler that draws with replacement.
Shuffles_Replacement == [1..NumExamples -> Examples]

\* The orders a shuffling sampler can produce: the permutations of the
\* data set.
Shuffles ==
    {s \in [1..NumExamples -> Examples] : \A i, j \in 1..NumExamples : s[i] = s[j] => i = j}

Min(a, b) == IF a < b THEN a ELSE b

\* next(iterator): the leading batch_size indices that are left.
TakeBatch(rest) == SubSeq(rest, 1, Min(BatchSize, Len(rest)))
\* An iterator that is exhausted after its first batch.
DropBatch_All(rest) == <<>>
\* What next(iterator) leaves in the iterator.
DropBatch(rest) == SubSeq(rest, Min(BatchSize, Len(rest)) + 1, Len(rest))

\* ------------------------------------------------- network and autograd
Dot(w, i) == RSum([p \in Params |-> RMul[w[p], RInt(Feature(i, p))]])

ReLU[a \in Q] == IF RPos(a) THEN a ELSE RInt(0)

\* model(images): one output per image of the batch.
Forward(w, imgs) == [k \in 1..Len(imgs) |-> ReLU[Dot(w, imgs[k])]]

\* criterion(output, labels): mean over the batch of -label * output.
Criterion(out, lbls) ==
    RDivInt[RSum([k \in 1..Len(out) |-> RMul[RInt(-lbls[k]), out[k]]]), Len(out)]

\* Gradient of criterion(model(images), labels) with respect to the weights.
GradLoss(w, imgs, lbls) ==
    [p \in Params |->
        RDivInt[RSum([k \in 1..Len(imgs) |->
                        IF RPos(Dot(w, imgs[k]))
                        THEN RInt(-lbls[k] * Feature(imgs[k], p))
                        ELSE RInt(0)]),
                Len(imgs)]]

ZeroVec == [p \in Params |-> RInt(0)]

\* A backward pass that overwrites the stored gradient.
Accumulate_Overwrite(grad, g) == Some(g)

\* loss.backward() on a leaf: the new gradient is added to the stored one;
\* a leaf that has no gradient yet receives it.
Accumulate(grad, g) ==
    IF grad = None THEN Some(g) ELSE Some([p \in DOMAIN g |-> RAdd[Get(grad)[p], g[p]]])

\* A zero_grad that leaves the stored gradient as it is.
ZeroGrad_Keeps(grad) == {grad}

\* optimizer.zero_grad(): the stored gradient is reset, to None or to zeros
\* depending on the library version; a parameter without gradient keeps None.
ZeroGradOutcomes(grad) == IF grad = None THEN {None} ELSE {None, Some(ZeroVec)}

\* A step that ignores the learning rate.
SGDStep_NoLr(w, grad, lr) ==
    IF grad = None THEN w ELSE [p \in DOMAIN w |-> RSub[w[p], Get(grad)[p]]]

\* optimizer.step() of optim.SGD(params, lr): W' = W - lr * grad; a parameter
\* without gradient is skipped.
SGDStep(w, grad, lr) ==
    IF grad = None THEN w ELSE [p \in DOMAIN w |-> RSub[w[p], RMul[lr, Get(grad)[p]]]]

\* Random initialisation of a newly built model.
InitWeights ==
    { [p \in Params |-> RInt(1)],
      [p \in Params |-> IF p = 1 THEN RInt(-1) ELSE RInt(1)] }

\* --------------------------------------------------------- toy autograd
ToyN == ToyRows * ToyCols
\* Values torch.randn may draw for an element of x.
ToyValues == {Rat[-3, 2], RInt(0), RInt(1)}

\* y = x**2
Pow2(xv) == [i \in DOMAIN xv |-> RMul[xv[i], xv[i]]]
\* z = y.mean()
Mean(yv) == RDivInt[RSum(yv), Len(yv)]
\* MeanBackward: dz/dy_i = 1/n for the n elements of y
MeanBackward(yv) == [i \in DOMAIN yv |-> Rat[1, Len(yv)]]
\* A power rule that drops the exponent.
PowBackward_NoFactor(xv, gy) == [i \in DOMAIN xv |-> RMul[xv[i], gy[i]]]
\* PowBackward: dy_i/dx_i = 2 * x_i, times the incoming gradient
PowBackward(xv, gy) == [i \in DOMAIN xv |-> RMul[RMul[RInt(2), xv[i]], gy[i]]]

\* ------------------------------------------------------------- state
VARIABLES
    pc,            \* the statement to run next
    raisedAt,      \* None, or Some(the statement whose call raised)
    loaded,        \* trainset / trainloader exist
    heap,          \* model object id -> [w: weights, grad: None or Some(gradient),
                   \*   acc: the losses back-propagated into grad since the object
                   \*        was built or its gradient was last zeroed,
                   \*   zeroed: zero_grad has been called on the object]
    model,         \* id of the object the name model is bound to, 0 if unbound
    optimizer,     \* None or Some([params: model id, lr])
    images,        \* the current batch: sequence of example indices
    labels,        \* the labels of the current batch
    logits,        \* None or Some(output tensor) (cells 6 and 20)
    output,        \* None or Some(output tensor) (cells 25 and 28)
    loss,          \* None or Some(loss tensor with its graph)
    x, y, z,       \* the toy tensors of the autograd cells
    e,             \* the epoch index of the for loop, -1 before the loop
    loopIter,      \* what is left of the loop's iterator over trainloader
    running_loss,
    printed,       \* None or Some(the training loss printed last)
    logps,         \* None or Some(output of the inference cell)
    hist,          \* counters of what has been executed
    trace,         \* the library calls made on the current batch, in order
    placed,        \* example -> number of batches of this epoch it was put in
    used           \* example -> number of training passes of this epoch on it

vars == <<pc, raisedAt, loaded, heap, model, optimizer, images, labels, logits,
          output, loss, x, y, z, e, loopIter, running_loss, printed, logps,
          hist, trace, placed, used>>

dataVars == <<images, labels>>
toyVars == <<x, y, z>>
loopVars == <<e, loopIter, running_loss, printed, placed, used>>

\* The statements of the cells before the loop, in cell order.
Prologue ==
    <<"c4_load",
      "c6_build", "c6_fetch", "c6_forward", "c6_loss",
      "c8_x", "c9_y", "c13_z", "c17_backward",
      "c20_build", "c20_fetch", "c20_forward", "c20_loss",
      "c21_backward",
      "c23_optim",
      "c25_fetch", "c25_zero", "c25_forward", "c25_loss", "c25_backward",
      "c26_step",
      "c28_build", "c28_optim", "c28_epoch">>

\* The loop body with the optimizer step taken before the backward pass.
LoopBody_StepFirst ==
    <<"c28_next", "c28_zero", "c28_forward", "c28_loss", "c28_step",
      "c28_backward", "c28_accum">>

\* The body of the inner for loop of the training cell, from the fetch of
\* the batch to the update of running_loss.
LoopBody ==
    <<"c28_next", "c28_zero", "c28_forward", "c28_loss", "c28_backward",
      "c28_step", "c28_accum">>

\* The inference cell.
Epilogue == <<"c30_fetch", "c30_infer", "c30_view", "done">>

Range(s) == {s[i] : i \in 1..Len(s)}
After(s, p) == s[(CHOOSE i \in 1..Len(s) : s[i] = p) + 1]

\* The statement that follows p in program order; the two for statements
\* branch in ForEpoch and NextBatch.
Succ(p) ==
    CASE p = "c28_epoch" -> LoopBody[1]
      [] p = LoopBody[Len(LoopBody)] -> LoopBody[1]
      [] p = "c28_print" -> "c28_epoch"
      [] p \in Range(LoopBody) -> After(LoopBody, p)
      [] p \in Range(Prologue) -> After(Prologue, p)
      [] p \in Range(Epilogue) \ {"done"} -> After(Epilogue, p)
      [] OTHER -> "done"

\* The statements of the training cell (cell 28).
InLoop(p) == p \in Range(LoopBody) \cup {"c28_print"}

\* Objects no name refers to any more are freed.
Collect(h, refs) == [i \in (DOMAIN h) \cap refs |-> h[i]]

OptRefs(o) == IF o = None THEN {} ELSE {Get(o).params}

NoCount == [i \in Examples |-> 0]

\* stepped is the id of the object the last optimizer step updated, 0 if
\* no step has been taken.
NoHist == [built |-> 0, cellBuilds |-> 0, backwards |-> 0, zeros |-> 0, passes |-> 0,
           steps |-> 0, stepped |-> 0, prints |-> 0, infers |-> 0, views |-> 0]

Init ==
    /\ pc = "c4_load"
    /\ raisedAt = None
    /\ loaded = FALSE
    /\ heap = <<>>
    /\ model = 0
    /\ optimizer = None
    /\ images = <<>>
    /\ labels = <<>>
    /\ logits = None
    /\ output = None
    /\ loss = None
    /\ x = None /\ y = None /\ z = None
    /\ e = -1
    /\ loopIter = <<>>
    /\ running_loss = RInt(0)
    /\ printed = None
    /\ logps = None
    /\ hist = NoHist
    /\ trace = <<>>
    /\ placed = NoCount
    /\ used = NoCount

\* trainset = datasets.MNIST(...); trainloader = DataLoader(trainset, ...)
LoadData ==
    /\ pc = "c4_load"
    /\ loaded' = TRUE
    /\ pc' = Succ(pc)
    /\ UNCHANGED <<raisedAt, heap, model, optimizer, dataVars, logits, output, loss,
                   toyVars, loopVars, logps, hist, trace>>

\* model = nn.Sequential(...): a new object with freshly drawn weights and
\* no gradient; the name model is rebound to it.  The toy tensors and the
\* logits are not read after this point and are dropped from the state.
BuildModel ==
    /\ pc \in {"c6_build", "c20_build", "c28_build"}
    /\ \E w0 \in InitWeights :
         LET id == hist.built + 1
             h == heap @@ (id :> [w |-> w0, grad |-> None, acc |-> <<>>,
                                   zeroed |-> FALSE])
         IN  /\ heap' = Collect(h, {id} \cup OptRefs(optimizer))
             /\ model' = id
             /\ hist' = [hist EXCEPT !.built = id,
                                     !.cellBuilds = IF pc = "c28_build" THEN @ + 1 ELSE @]
    /\ x' = None /\ y' = None /\ z' = None
    /\ logits' = None
    /\ trace' = <<"build">>
    /\ pc' = Succ(pc)
    /\ UNCHANGED <<raisedAt, loaded, optimizer, dataVars, output, loss, loopVars, logps>>

\* dataiter = iter(trainloader); images, labels = next(dataiter); flatten.
\* The iterator is not used again: only its first batch is kept.
FetchFirst ==
    /\ pc \in {"c6_fetch", "c20_fetch", "c25_fetch", "c30_fetch"}
    /\ loaded
    /\ \E s \in Shuffles :
         /\ images' = TakeBatch(s)
         /\ labels' = [k \in 1..Len(TakeBatch(s)) |-> Label(TakeBatch(s)[k])]
    /\ trace' = <<"fetch">>
    /\ pc' = Succ(pc)
    /\ UNCHANGED <<raisedAt, loaded, heap, model, optimizer, logits, output, loss,
                   toyVars, loopVars, logps, hist>>

\* The tensor model(images) with the graph that produced it.
OutputOf(m, imgs) ==
    [val |-> Forward(heap[m].w, imgs), on |-> m, w |-> heap[m].w, imgs |-> imgs]

\* logits = model(images)  /  output = model(images)
ForwardPass ==
    /\ pc \in {"c6_forward", "c20_forward", "c25_forward", "c28_forward"}
    /\ IF pc \in {"c6_forward", "c20_forward"}
       THEN logits' = Some(OutputOf(model, images)) /\ output' = output
       ELSE output' = Some(OutputOf(model, images)) /\ logits' = logits
    /\ trace' = Append(trace, "forward")
    /\ pc' = Succ(pc)
    /\ UNCHANGED <<raisedAt, loaded, heap, model, optimizer, dataVars, loss,
                   toyVars, loopVars, logps, hist>>

\* The tensor criterion(out, labels) with the graph that produced it.
LossOf(out, lbls) ==
    [val |-> Criterion(out.val, lbls), on |-> out.on, w |-> out.w,
     imgs |-> out.imgs, lbls |-> lbls]

\* loss = criterion(logits, labels)  /  loss = criterion(output, labels)
ComputeLoss ==
    /\ pc \in {"c6_loss", "c20_loss", "c25_loss", "c28_loss"}
    /\ loss' = Some(LossOf(Get(IF pc \in {"c6_loss", "c20_loss"} THEN logits ELSE output),
                           labels))
    /\ trace' = Append(trace, "loss")
    /\ pc' = Succ(pc)
    /\ UNCHANGED <<raisedAt, loaded, heap, model, optimizer, dataVars, logits, output,
                   toyVars, loopVars, logps, hist>>

\* x = torch.randn(2,2, requires_grad=True)
ToyX ==
    /\ pc = "c8_x"
    /\ \E v \in [1..ToyN -> ToyValues] : x' = Some([val |-> v, grad |-> None])
    /\ pc' = Succ(pc)
    /\ UNCHANGED <<raisedAt, loaded, heap, model, optimizer, dataVars, logits, output,
                   loss, y, z, loopVars, logps, hist, trace>>

\* y = x**2
ToyY ==
    /\ pc = "c9_y"
    /\ y' = Some([val |-> Pow2(Get(x).val)])
    /\ pc' = Succ(pc)
    /\ UNCHANGED <<raisedAt, loaded, heap, model, optimizer, dataVars, logits, output,
                   loss, x, z, loopVars, logps, hist, trace>>

\* z = y.mean()
ToyZ ==
    /\ pc = "c13_z"
    /\ z' = Some([val |-> Mean(Get(y).val)])
    /\ pc' = Succ(pc)
    /\ UNCHANGED <<raisedAt, loaded, heap, model, optimizer, dataVars, logits, output,
                   loss, x, y, loopVars, logps, hist, trace>>

\* z.backward(): the chain rule through mean and pow, accumulated in x.grad
ToyBackward ==
    /\ pc = "c17_backward"
    /\ x' = Some([Get(x) EXCEPT !.grad =
                    Accumulate(@, PowBackward(Get(x).val, MeanBackward(Get(y).val)))])
    /\ pc' = Succ(pc)
    /\ UNCHANGED <<raisedAt, loaded, heap, model, optimizer, dataVars, logits, output,
                   loss, y, z, loopVars, logps, hist, trace>>

\* The heap after l.backward(): the gradient of the loss l, taken on the
\* graph l holds, is accumulated in the gradient of the parameters.
BackwardOn(h, l) ==
    [h EXCEPT ![l.on].grad = Accumulate(@, GradLoss(l.w, l.imgs, l.lbls)),
              ![l.on].acc = Append(@, l)]

\* loss.backward()
Backward ==
    /\ pc \in {"c21_backward", "c25_backward", "c28_backward"}
    /\ heap' = BackwardOn(heap, Get(loss))
    /\ hist' = [hist EXCEPT !.backwards = @ + 1]
    /\ trace' = Append(trace, "backward")
    /\ pc' = Succ(pc)
    /\ UNCHANGED <<raisedAt, loaded, model, optimizer, dataVars, logits, output, loss,
                   toyVars, loopVars, logps>>

\* lr=0.01 of the optimizer of cell 23, lr=0.003 of the one of cell 28
LrSingle == Rat[1, 100]
LrTrain == Rat[3, 1000]

\* A training cell that does not rebuild the optimizer: the one of cell 23
\* stays, bound to the parameters of the replaced model.
MakeOptimizer_KeepsOld ==
    /\ pc \in {"c23_optim", "c28_optim"}
    /\ IF pc = "c23_optim"
       THEN /\ optimizer' = Some([params |-> model, lr |-> LrSingle])
            /\ heap' = Collect(heap, {model})
       ELSE UNCHANGED <<optimizer, heap>>
    /\ pc' = Succ(pc)
    /\ UNCHANGED <<raisedAt, loaded, model, dataVars, logits, output, loss,
                   toyVars, loopVars, logps, hist, trace>>

\* optimizer = optim.SGD(model.parameters(), lr=...)
MakeOptimizer ==
    /\ pc \in {"c23_optim", "c28_optim"}
    /\ optimizer' = Some([params |-> model,
                          lr |-> IF pc = "c23_optim" THEN LrSingle ELSE LrTrain])
    /\ heap' = Collect(heap, {model})
    /\ pc' = Succ(pc)
    /\ UNCHANGED <<raisedAt, loaded, model, dataVars, logits, output, loss,
                   toyVars, loopVars, logps, hist, trace>>

\* The heaps o.zero_grad() can leave.
ZeroGradOn(h, o) ==
    {[h EXCEPT ![o.params].grad = g, ![o.params].acc = <<>>, ![o.params].zeroed = TRUE] :
        g \in ZeroGradOutcomes(h[o.params].grad)}

\* optimizer.zero_grad()
ZeroGrad ==
    /\ pc \in {"c25_zero", "c28_zero"}
    /\ heap' \in ZeroGradOn(heap, Get(optimizer))
    /\ hist' = [hist EXCEPT !.zeros = @ + 1]
    /\ trace' = Append(trace, "zero_grad")
    /\ pc' = Succ(pc)
    /\ UNCHANGED <<raisedAt, loaded, model, optimizer, dataVars, logits, output, loss,
                   toyVars, loopVars, logps>>

\* The heap after o.step().
StepOn(h, o) == [h EXCEPT ![o.params].w = SGDStep(@, h[o.params].grad, o.lr)]

\* optimizer.step()
OptStep ==
    /\ pc \in {"c26_step", "c28_step"}
    /\ heap' = StepOn(heap, Get(optimizer))
    /\ hist' = [hist EXCEPT !.steps = @ + 1,
                            !.stepped = Get(optimizer).params,
                            !.passes = IF pc = "c28_step" THEN @ + 1 ELSE @]
    /\ used' = IF pc = "c28_step"
               THEN [i \in Examples |->
                       used[i] + Cardinality({k \in 1..Len(Get(loss).imgs) :
                                                 Get(loss).imgs[k] = i})]
               ELSE used
    /\ trace' = Append(trace, "step")
    /\ pc' = Succ(pc)
    /\ UNCHANGED <<raisedAt, loaded, model, optimizer, dataVars, logits, output, loss,
                   toyVars, e, loopIter, running_loss, printed, placed, logps>>

\* A range that yields one value too many.
MoreEpochs_OneMore(ee) == ee < epochs

\* range(epochs) has a next value after ee
MoreEpochs(ee) == ee + 1 < epochs

\* for e in range(epochs): running_loss = 0; the inner for statement takes
\* a new iterator over trainloader, which shuffles the data set.
ForEpoch ==
    /\ pc = "c28_epoch"
    /\ IF MoreEpochs(e)
       THEN /\ e' = e + 1
            /\ running_loss' = RInt(0)
            /\ loopIter' \in Shuffles
            /\ placed' = NoCount
            /\ used' = NoCount
            /\ pc' = Succ(pc)
            /\ UNCHANGED printed
       ELSE /\ pc' = "c30_fetch"
            /\ UNCHANGED loopVars
    /\ UNCHANGED <<raisedAt, loaded, heap, model, optimizer, dataVars, logits, output,
                   loss, toyVars, logps, hist, trace>>

\* for images, labels in trainloader: the next batch and its flattening, or
\* the else clause when the iterator is exhausted.
NextBatch ==
    /\ pc = "c28_next"
    /\ IF loopIter # <<>>
       THEN /\ images' = TakeBatch(loopIter)
            /\ labels' = [k \in 1..Len(TakeBatch(loopIter)) |-> Label(TakeBatch(loopIter)[k])]
            /\ loopIter' = DropBatch(loopIter)
            /\ placed' = [i \in Examples |->
                            placed[i] + Cardinality({k \in 1..Len(TakeBatch(loopIter)) :
                                                       TakeBatch(loopIter)[k] = i})]
            /\ trace' = <<"fetch">>
            /\ pc' = Succ(pc)
       ELSE /\ pc' = "c28_print"
            /\ UNCHANGED <<images, labels, loopIter, placed, trace>>
    /\ UNCHANGED <<raisedAt, loaded, heap, model, optimizer, logits, output, loss,
                   toyVars, e, running_loss, printed, used, logps, hist>>

\* running_loss += loss.item()
Accum ==
    /\ pc = "c28_accum"
    /\ running_loss' = RAdd[running_loss, Get(loss).val]
    /\ pc' = Succ(pc)
    /\ UNCHANGED <<raisedAt, loaded, heap, model, optimizer, dataVars, logits, output,
                   loss, toyVars, e, loopIter, printed, placed, used, logps, hist, trace>>

\* print(f"Training loss: {running_loss/len(trainloader)}")
PrintLoss ==
    /\ pc = "c28_print"
    /\ printed' = Some(RDivInt[running_loss, NumBatches])
    /\ hist' = [hist EXCEPT !.prints = @ + 1]
    /\ pc' = Succ(pc)
    /\ UNCHANGED <<raisedAt, loaded, heap, model, optimizer, dataVars, logits, output,
                   loss, toyVars, e, loopIter, running_loss, placed, used, logps, trace>>

\* img = images[0].view(1, 784); with torch.no_grad(): logps = model(img)
Infer ==
    /\ pc = "c30_infer"
    /\ logps' = Some([img |-> images[1], val |-> Forward(heap[model].w, <<images[1]>>)])
    /\ hist' = [hist EXCEPT !.infers = @ + 1]
    /\ pc' = Succ(pc)
    /\ UNCHANGED <<raisedAt, loaded, heap, model, optimizer, dataVars, logits, output,
                   loss, toyVars, loopVars, trace>>

\* ps = torch.exp(logps); helper.view_classify(img.view(1, 28, 28), ps)
View ==
    /\ pc = "c30_view"
    /\ logps # None
    /\ hist' = [hist EXCEPT !.views = @ + 1]
    /\ pc' = Succ(pc)
    /\ UNCHANGED <<raisedAt, loaded, heap, model, optimizer, dataVars, logits, output,
                   loss, toyVars, loopVars, logps, trace>>

\* A call raises and the exception is swallowed: the run goes on with the
\* next statement.
Fail_Swallowed ==
    /\ pc \notin {"done", "raised"}
    /\ raisedAt = None
    /\ raisedAt' = Some(pc)
    /\ pc' = Succ(pc)
    /\ UNCHANGED <<loaded, heap, model, optimizer, dataVars, logits, output, loss,
                   toyVars, loopVars, logps, hist, trace>>

\* A call raises: nothing catches it, the run stops at that statement.
Fail ==
    /\ pc \notin {"done", "raised"}
    /\ raisedAt' = Some(pc)
    /\ pc' = "raised"
    /\ UNCHANGED <<loaded, heap, model, optimizer, dataVars, logits, output, loss,
                   toyVars, loopVars, logps, hist, trace>>

Next ==
    \/ LoadData
    \/ BuildModel
    \/ FetchFirst
    \/ ForwardPass
    \/ ComputeLoss
    \/ ToyX
    \/ ToyY
    \/ ToyZ
    \/ ToyBackward
    \/ Backward
    \/ MakeOptimizer
    \/ ZeroGrad
    \/ OptStep
    \/ ForEpoch
    \/ NextBatch
    \/ Accum
    \/ PrintLoss
    \/ Infer
    \/ View
    \/ Fail

Spec == Init /\ [][Next]_vars

\* Cells run one after the other: a statement that can run does run.
FairSpec == Spec /\ WF_vars(Next)

\* ------------------------------------------- the library calls, any order
\* The calls the notebook makes on one model and its optimizer (a training
\* pass without zeroing, zero_grad, step), made in any order: the setting
\* of the notebook's remark on accumulated gradients.
MaxCalls == 2

LibCalls == hist.backwards + hist.zeros + hist.steps

LibInit ==
    /\ pc = "lib"
    /\ raisedAt = None
    /\ loaded = TRUE
    /\ \E w0 \in InitWeights :
         heap = (1 :> [w |-> w0, grad |-> None, acc |-> <<>>, zeroed |-> FALSE])
    /\ model = 1
    /\ optimizer = Some([params |-> 1, lr |-> LrSingle])
    /\ images = <<>>
    /\ labels = <<>>
    /\ logits = None
    /\ output = None
    /\ loss = None
    /\ x = None /\ y = None /\ z = None
    /\ e = -1
    /\ loopIter = <<>>
    /\ running_loss = RInt(0)
    /\ printed = None
    /\ logps = None
    /\ hist = [NoHist EXCEPT !.built = 1]
    /\ trace = <<>>
    /\ placed = NoCount
    /\ used = NoCount

\* images, labels = next(iter(trainloader)); output = model(images);
\* loss = criterion(output, labels); loss.backward()
LibPass ==
    /\ pc = "lib" /\ LibCalls < MaxCalls
    /\ \E s \in Shuffles :
         /\ images' = TakeBatch(s)
         /\ labels' = [k \in 1..Len(images') |-> Label(images'[k])]
         /\ output' = Some(OutputOf(model, images'))
         /\ loss' = Some(LossOf(Get(output'), labels'))
         /\ heap' = BackwardOn(heap, Get(loss'))
    /\ hist' = [hist EXCEPT !.backwards = @ + 1]
    /\ UNCHANGED <<pc, raisedAt, loaded, model, optimizer, logits, toyVars, loopVars,
                   logps, trace>>

\* optimizer.zero_grad()
LibZero ==
    /\ pc = "lib" /\ LibCalls < MaxCalls
    /\ heap' \in ZeroGradOn(heap, Get(optimizer))
    /\ hist' = [hist EXCEPT !.zeros = @ + 1]
    /\ UNCHANGED <<pc, raisedAt, loaded, model, optimizer, dataVars, logits, output, loss,
                   toyVars, loopVars, logps, trace>>

\* optimizer.step()
LibStep ==
    /\ pc = "lib" /\ LibCalls < MaxCalls
    /\ heap' = StepOn(heap, Get(optimizer))
    /\ hist' = [hist EXCEPT !.steps = @ + 1, !.stepped = Get(optimizer).params]
    /\ UNCHANGED <<pc, raisedAt, loaded, model, optimizer, dataVars, logits, output, loss,
                   toyVars, loopVars, logps, trace>>

LibNext ==
    \/ LibPass
    \/ LibZero
    \/ LibStep

LibSpec == LibInit /\ [][LibNext]_vars

\* ------------------------------------------------------------- claims
\* One training pass on a batch, as a sequence of calls.
PassOrder == <<"fetch", "zero_grad", "forward", "loss", "backward", "step">>

IsPrefix(s, t) == Len(s) <= Len(t) /\ s = SubSeq(t, 1, Len(s))

\* The gradient stored for the parameters the optimizer updates.
OptGrad == heap[Get(optimizer).params].grad

\* C1: in the training loop the calls on every batch are made in the order
\* zero_grad, forward, loss, backward, step: while a batch is processed the
\* calls made so far are a prefix of that order, the pass is complete when
\* running_loss is updated, and no step (in the loop or in the single
\* training step) is taken without a backward pass on the same batch
\* before it.
C1_TrainingOrder ==
    /\ pc \in Range(LoopBody) \ {"c28_next"} => IsPrefix(trace, PassOrder)
    /\ pc = "c28_accum" => trace = PassOrder
    /\ \A k \in 1..Len(trace) :
         trace[k] = "step" => \E j \in 1..(k - 1) : trace[j] = "backward"

\* C1 witness: the last batch of the last epoch has been processed.
C1_Witness ==
    /\ pc = "c28_accum" /\ e = epochs - 1 /\ loopIter = <<>>
    /\ trace = PassOrder

\* C2: at every optimizer.step(), in the loop and in the single training
\* step, the stored gradient is the gradient of the loss of the current
\* batch at the current weights, and nothing else.
C2_FreshGradient ==
    pc \in {"c26_step", "c28_step"} =>
        /\ Get(optimizer).params = model
        /\ OptGrad = Some(GradLoss(heap[model].w, images, labels))

\* C2 witness: a step of the loop is about to be taken with a non-zero
\* gradient, after earlier passes with a non-zero gradient.
C2_Witness ==
    /\ pc = "c28_step" /\ hist.passes >= 2
    /\ OptGrad # Some(ZeroVec)
    /\ heap[model].w \notin InitWeights

\* C3 as stated: the loop repeats the model construction with every batch,
\* so after k passes the training cell has constructed k models.
C3_Original == pc = "c28_accum" => hist.cellBuilds = hist.passes

\* C3 amended: the training cell constructs the model once, before the
\* loop; the loop repeats loss computation, gradient computation and
\* parameter update for every batch of every epoch.
C3_Amended ==
    /\ InLoop(pc) => hist.cellBuilds = 1
    /\ pc = "c28_accum" =>
         {"loss", "backward", "step"} \subseteq Range(trace) /\ "build" \notin Range(trace)
    /\ pc = "c28_print" => hist.passes = (e + 1) * NumBatches

\* C3 witness: the loss of the last epoch is about to be printed.
C3_Witness ==
    pc = "c28_print" /\ e = epochs - 1 /\ hist.passes = epochs * NumBatches

\* C4: the run terminates (unless a call raises); when it is done the loop
\* has run exactly `epochs` epochs over every batch of trainloader and has
\* printed one loss per epoch, and the inference and the visualization
\* have happened exactly once, neither before the last optimizer step of
\* the last epoch.
C4_Terminates ==
    /\ <>(pc = "done" \/ pc = "raised")
    /\ [](pc = "done" =>
            /\ e = epochs - 1
            /\ hist.passes = epochs * NumBatches
            /\ hist.prints = epochs
            /\ hist.infers = 1 /\ hist.views = 1)
    /\ [](hist.infers + hist.views > 0 =>
            /\ hist.passes = epochs * NumBatches
            /\ hist.steps = epochs * NumBatches + 1
            /\ hist.infers <= 1 /\ hist.views <= 1)

\* C4 witness: a run without failure is done.
C4_Witness == pc = "done" /\ raisedAt = None /\ hist.views = 1

\* C6: once a call has raised, the run has stopped at that call: no later
\* statement runs, so no optimizer step, print or visualization follows.
C6_NoCatch ==
    /\ [](raisedAt # None => pc = "raised")
    /\ [][raisedAt # None => UNCHANGED <<heap, hist, printed, running_loss, logps>>]_vars

\* C6 witness: the backward pass of a later batch of the loop has raised.
C6_Witness == raisedAt = Some("c28_backward") /\ hist.steps >= 2 /\ hist.prints >= 1

\* C7: x.grad is None from the creation of x until z.backward(); after
\* z.backward() it is x/2, element by element.
C7_ToyGradient ==
    /\ (pc \in {"c9_y", "c13_z", "c17_backward"} /\ x # None) => Get(x).grad = None
    /\ pc = "c20_build" =>
         /\ x # None
         /\ Get(x).grad = Some([i \in 1..ToyN |-> RDivInt[Get(x).val[i], 2]])

\* C7 witness: z.backward() has run on an x with different non-zero elements.
C7_Witness ==
    /\ pc = "c20_build" /\ x # None /\ z # None
    /\ Get(x).val[1] = Rat[-3, 2] /\ Get(x).val[2] = RInt(1)
    /\ Get(x).grad # None

\* An optimizer step is being taken.
Stepping == pc \in {"c26_step", "c28_step"} /\ pc' = Succ(pc)

\* C8: an optimizer step replaces every weight by its value minus the
\* learning rate times its gradient, leaves a weight with a zero gradient
\* as it is, and does not change the stored gradients.
C8_SGDUpdate ==
    [][Stepping =>
        LET m == Get(optimizer).params
            lr == Get(optimizer).lr
        IN  /\ heap[m].grad # None
            /\ \A p \in Params :
                 /\ heap'[m].w[p] = RSub[heap[m].w[p], RMul[lr, Get(heap[m].grad)[p]]]
                 /\ Get(heap[m].grad)[p] = RInt(0) => heap'[m].w[p] = heap[m].w[p]
            /\ heap'[m].grad = heap[m].grad]_vars

\* C8 witness: a step has been taken with a gradient that is zero for one
\* weight and not for another.
C8_Witness ==
    /\ pc = "c28_accum"
    /\ \E p, q \in Params :
         /\ Get(OptGrad)[p] = RInt(0)
         /\ Get(OptGrad)[q] # RInt(0)

\* C9: in every epoch each training example is put in one batch and used
\* in one training pass: never more than one, and exactly one when the
\* inner loop is over.
C9_EpochCoversData ==
    /\ \A i \in Examples : placed[i] <= 1 /\ used[i] <= 1
    /\ pc = "c28_print" => \A i \in Examples : placed[i] = 1 /\ used[i] = 1

\* C9 witness: the inner loop of a later epoch is over.
C9_Witness ==
    pc = "c28_print" /\ e >= 1 /\ \A i \in Examples : used[i] = 1

\* The element-wise sum of two gradients.
Vec == [Params -> Q]
VecAdd[a \in Vec, b \in Vec] == [p \in Params |-> RAdd[a[p], b[p]]]

\* The sum of the gradients of the losses of the sequence acc, each taken
\* on the graph the loss holds.
GradSum(acc) ==
    LET sumTo[k \in 0..Len(acc)] ==
            IF k = 0 THEN ZeroVec
            ELSE VecAdd[sumTo[k - 1], GradLoss(acc[k].w, acc[k].imgs, acc[k].lbls)]
    IN  sumTo[Len(acc)]

\* The gradient of the loss back-propagated last into object m.
LastGrad(m) ==
    LET l == heap[m].acc[Len(heap[m].acc)] IN GradLoss(l.w, l.imgs, l.lbls)

StepOnCurrentModel ==
    pc \in {"c26_step", "c28_step"} =>
        /\ Get(optimizer).params = model
        /\ Get(loss).on = model
        /\ Get(output).on = model
        /\ model \in DOMAIN heap

\* C11 as stated: at every step the optimizer is bound to the model whose
\* loss was just back-propagated, and every forward pass that follows a
\* step is made by the model that step updated.
C11_Original ==
    /\ StepOnCurrentModel
    /\ (pc \in {"c25_loss", "c28_loss"} /\ hist.stepped # 0) =>
          Get(output).on = hist.stepped
    /\ pc = "c30_view" => model = hist.stepped

\* C11 amended: at every step the optimizer is bound to the model whose
\* loss was just back-propagated; every step of the training loop updates
\* the model the next forward pass (of the loop or of the inference cell)
\* uses; the single step of cell 26 updates the model of cell 20, which
\* the training cell replaces before its first forward pass.
C11_Amended ==
    /\ StepOnCurrentModel
    /\ (pc = "c28_loss" /\ hist.passes > 0) => Get(output).on = hist.stepped
    /\ (pc = "c28_loss" /\ hist.passes = 0) =>
          /\ hist.stepped # 0
          /\ Get(output).on # hist.stepped
          /\ hist.stepped \notin DOMAIN heap
    /\ pc = "c30_view" => model = hist.stepped /\ logps # None

\* C11 witness: a forward pass of the loop has been made by the model that
\* the step of the batch before it updated with a non-zero gradient.
C11_Witness ==
    /\ pc = "c28_loss" /\ hist.passes >= 1
    /\ Get(output).on = hist.stepped
    /\ Get(output).w \notin InitWeights
====
